---- MODULE Spec2Model ----
(***************************************************************************)
(* Model of the UPolly sentence player (upolly/src/App.tsx): the React     *)
(* component state, the handlers of the main audio effect, the deferred    *)
(* seeks they schedule and the <audio> transport they drive.               *)
(* A second part models the sentence aligner of the transcription         *)
(* front end (frontend/src/components/AudioProcessor.ts): words are its    *)
(* input, audioSegments the segments it resolves.                          *)
(*                                                                         *)
(* Time is counted in units of 0.1 s.  A handler reads the state of the    *)
(* render it was created in (rs, the closure) and writes through           *)
(* updateState into the pending state (state); Render commits the pending  *)
(* state and re-runs the main audio effect.                                *)
(***************************************************************************)
EXTENDS Integers, Sequences, FiniteSets, TLC

VARIABLES state, rs, audio, timers, events, intervals, intervalId, leaked, cmds, last,
          plays,
          words, audioSegments, resolved, result, located, studio, jumped

vars == <<state, rs, audio, timers, events, intervals, intervalId, leaked, cmds, last,
          plays,
          words, audioSegments, resolved, result, located, studio, jumped>>

(***************************************************************************)
(* Bounds of the model                                                     *)
(***************************************************************************)
Duration == 6
MaxIntervals == 2
MaxPlays == 5
MaxWords == 3
MaxTime == 2
MaxLongWords == 5
MaxSegments == 3
MaxSampleTime == 20
MaxStreak == 4

(***************************************************************************)
(* Program constants, in units of 0.1 s                                    *)
(***************************************************************************)
EndTolerance == 1
ReplayDelay == 1
AdvanceDelay == 2
InitialRepeatCount == 3

RepeatModes == {"off", "sentence", "all"}
\* The position of a mode in the repeat-mode select.
RepeatModeOrder == << "off", "sentence", "all" >>
RepeatModeOption(mode) == CHOOSE i \in 1..Len(RepeatModeOrder) : RepeatModeOrder[i] = mode

RepeatCountOptions == {1, 2, 3}

\* The sentence list delivered by the upload response: two touching
\* sentences, the last of which ends before the audio does.
UploadedSentences ==
    << [start |-> 0, end |-> 2], [start |-> 2, end |-> 4] >>

\* sentences[index] with the 0-based index of the source; out of range is
\* JavaScript's undefined.
Undefined == [undefined |-> TRUE]
SentenceAt(sentences, index) ==
    IF index >= 0 /\ index < Len(sentences) THEN sentences[index + 1] ELSE Undefined

(***************************************************************************)
(* Component state                                                         *)
(***************************************************************************)
InitialState ==
    [ sentences            |-> << >>,
      isPlaying            |-> FALSE,
      currentSentenceIndex |-> -1,
      currentTime          |-> 0,
      repeatMode           |-> "off",
      repeatCount          |-> InitialRepeatCount,
      currentRepeat        |-> 0,
      isRepeating          |-> FALSE,
      repeatSentenceIndex  |-> -1 ]

updateState(st, updates) ==
    [k \in DOMAIN st |-> IF k \in DOMAIN updates THEN updates[k] ELSE st[k]]

resetAudioState(st) ==
    updateState(st, [ currentSentenceIndex |-> -1,
                      currentTime          |-> 0,
                      currentRepeat        |-> 0,
                      isRepeating          |-> FALSE,
                      repeatSentenceIndex  |-> -1 ])

resetAllStateKeepingCycleIndex(st) ==
    updateState(st, [ sentences            |-> << >>,
                      isPlaying            |-> FALSE,
                      currentSentenceIndex |-> -1,
                      currentTime          |-> 0,
                      currentRepeat        |-> 0,
                      isRepeating          |-> FALSE ])

resetAllState(st) ==
    updateState(st, [ sentences            |-> << >>,
                      isPlaying            |-> FALSE,
                      currentSentenceIndex |-> -1,
                      currentTime          |-> 0,
                      currentRepeat        |-> 0,
                      isRepeating          |-> FALSE,
                      repeatSentenceIndex  |-> -1 ])

\* The <audio> element is rendered only with a non-empty sentence list, so
\* audioRef.current is set exactly when the committed render has sentences.
audioRef(s) == s.sentences # << >>
audioRefCurrent == audioRef(rs)

(***************************************************************************)
(* Transport (HTMLMediaElement): commands and the notifications they queue *)
(***************************************************************************)
FreshAudio == [currentTime |-> 0, paused |-> TRUE]

\* timeupdate notifications are coalesced: at most one is pending.
QueueEvent(q, e) ==
    IF e = "timeupdate" /\ (\E i \in 1..Len(q) : q[i] = "timeupdate") THEN q ELSE Append(q, e)

\* A transport is the element together with its pending notifications and
\* the commands issued to it by the running handler.
Seek(tr, t) ==
    [ audio  |-> [tr.audio EXCEPT !.currentTime = t],
      events |-> QueueEvent(tr.events, "timeupdate"),
      cmds   |-> Append(tr.cmds, [op |-> "seek", t |-> t]) ]

Pause(tr) ==
    [ audio  |-> [tr.audio EXCEPT !.paused = TRUE],
      events |-> IF tr.audio.paused THEN tr.events
                 ELSE QueueEvent(QueueEvent(tr.events, "timeupdate"), "pause"),
      cmds   |-> Append(tr.cmds, [op |-> "pause"]) ]

Play(tr) ==
    [ audio  |-> [currentTime |-> IF tr.audio.currentTime >= Duration THEN 0
                                  ELSE tr.audio.currentTime,
                  paused      |-> FALSE],
      events |-> IF tr.audio.paused THEN QueueEvent(tr.events, "play") ELSE tr.events,
      cmds   |-> Append(tr.cmds, [op |-> "play"]) ]

(***************************************************************************)
(* Deferred seeks (setTimeout): the pending callbacks, each with the time  *)
(* it assigns to currentTime and the delay left.  Callbacks that assign    *)
(* the same time after the same delay are kept as one.                     *)
(***************************************************************************)
setTimeout(tm, target, delay) == tm \cup {[target |-> target, delay |-> delay]}

(***************************************************************************)
(* Audio event handlers                                                    *)
(***************************************************************************)
containsTimeBeforeEnd(sentence, time) == time >= sentence.start /\ time < sentence.end

\* The index found by the scan of updateCurrentSentence.
containsTime(sentence, time) == time >= sentence.start /\ time <= sentence.end

RECURSIVE FindFrom(_, _, _)
FindFrom(sentences, time, i) ==
    IF i >= Len(sentences) THEN -1
    ELSE IF containsTime(sentences[i + 1], time) THEN i
    ELSE FindFrom(sentences, time, i + 1)

foundIndex(sentences, time) == FindFrom(sentences, time, 0)

\* s is the closure state, st the pending state the updates are merged into.
updateCurrentSentence(s, st, a) ==
    IF ~audioRefCurrent THEN st
    ELSE updateState(updateState(st, [currentTime |-> a.currentTime]),
                     [currentSentenceIndex |-> foundIndex(s.sentences, a.currentTime)])

resetRepeatKeepingCount(st) ==
    updateState(st, [isRepeating |-> FALSE, repeatSentenceIndex |-> -1])

resetRepeat(st) ==
    updateState(st, [isRepeating |-> FALSE, repeatSentenceIndex |-> -1, currentRepeat |-> 0])

\* The trailing block of handleRepeatLogic: the cycle belongs to another
\* sentence than the one the closure sees as current.
resetOnSentenceChange(s, r) ==
    IF s.currentSentenceIndex >= 0
       /\ s.repeatSentenceIndex # s.currentSentenceIndex
       /\ s.isRepeating
    THEN [r EXCEPT !.state = resetRepeat(r.state)]
    ELSE r

\* The three tests of handleRepeatLogic: past the sentence end, replay after
\* the first end, replay while repeating.
sentenceEndedAnywhere(sentence, time) == TRUE

sentenceEnded(sentence, time) == time >= sentence.end - EndTolerance

startsRepeat(s) == s.currentRepeat < s.repeatCount - 1

continuesRepeatInclusive(s) == s.currentRepeat <= s.repeatCount

continuesRepeat(s) == s.currentRepeat < s.repeatCount

\* r = [state, tr, timers]: pending state, transport, deferred seeks.
handleRepeatLogic(s, r) ==
    LET idx == s.currentSentenceIndex
        currentSentence == SentenceAt(s.sentences, idx)
        time == r.tr.audio.currentTime
        hasNext == idx < Len(s.sentences) - 1
        begun == IF ~s.isRepeating
                 THEN [r EXCEPT !.state = updateState(r.state,
                                  [ isRepeating         |-> TRUE,
                                    repeatSentenceIndex |-> idx,
                                    currentRepeat       |-> 1 ])]
                 ELSE r
        replay(x) == [x EXCEPT !.timers = setTimeout(x.timers, currentSentence.start, ReplayDelay)]
    IN  IF ~audioRefCurrent \/ s.repeatMode # "sentence" \/ idx < 0 THEN r
        ELSE IF currentSentence = Undefined THEN r
        ELSE IF sentenceEnded(currentSentence, time) THEN
            IF ~s.isRepeating /\ startsRepeat(s) THEN replay(begun)
            ELSE IF s.isRepeating /\ s.repeatSentenceIndex = idx THEN
                IF continuesRepeat(s)
                THEN replay([begun EXCEPT !.state =
                                updateState(begun.state, [currentRepeat |-> s.currentRepeat + 1])])
                ELSE resetOnSentenceChange(s,
                        [ state  |-> resetRepeat(begun.state),
                          tr     |-> IF hasNext THEN begun.tr ELSE Pause(begun.tr),
                          timers |-> IF hasNext
                                     THEN setTimeout(begun.timers,
                                                     SentenceAt(s.sentences, idx + 1).start,
                                                     AdvanceDelay)
                                     ELSE begun.timers ])
            ELSE resetOnSentenceChange(s, begun)
        ELSE resetOnSentenceChange(s, r)

handleTimeUpdate(s, r) ==
    handleRepeatLogic(s, [r EXCEPT !.state = updateCurrentSentence(s, r.state, r.tr.audio)])

handlePauseKeepingPlaying(st) == st

handlePause(st) == updateState(st, [isPlaying |-> FALSE])

handlePlay(st) == updateState(st, [isPlaying |-> TRUE])

handleEndedPlayFirst(s, r) ==
    [r EXCEPT !.state = resetRepeat(updateState(r.state,
                            [isPlaying |-> FALSE, currentSentenceIndex |-> -1])),
              !.tr = IF s.repeatMode = "all" THEN Seek(Play(r.tr), 0) ELSE r.tr]

handleEnded(s, r) ==
    LET st1 == updateState(r.state, [ isPlaying            |-> FALSE,
                                      currentSentenceIndex |-> -1,
                                      currentRepeat        |-> 0,
                                      isRepeating          |-> FALSE,
                                      repeatSentenceIndex  |-> -1 ])
    IN  [r EXCEPT !.state = st1,
                  !.tr = IF s.repeatMode = "all" THEN Play(Seek(r.tr, 0)) ELSE r.tr]

(***************************************************************************)
(* Audio control handlers                                                  *)
(***************************************************************************)
jumpToSentenceKeepingCycle(s, r, index) ==
    IF audioRefCurrent /\ SentenceAt(s.sentences, index) # Undefined
    THEN [r EXCEPT !.tr = Seek(r.tr, SentenceAt(s.sentences, index).start),
                   !.state = updateState(r.state, [currentSentenceIndex |-> index])]
    ELSE r

jumpToSentenceUnchecked(s, r, index) ==
    LET sentence == SentenceAt(s.sentences, index)
    IN  IF audioRefCurrent
        THEN [r EXCEPT !.tr = IF sentence # Undefined THEN Seek(r.tr, sentence.start)
                              ELSE r.tr,
                       !.state = updateState(r.state,
                                    [ currentSentenceIndex |-> index,
                                      currentRepeat        |-> 0,
                                      isRepeating          |-> FALSE,
                                      repeatSentenceIndex  |-> -1 ])]
        ELSE r

jumpToSentence(s, r, index) ==
    IF audioRefCurrent /\ SentenceAt(s.sentences, index) # Undefined
    THEN [r EXCEPT !.tr = Seek(r.tr, SentenceAt(s.sentences, index).start),
                   !.state = updateState(r.state,
                                [ currentSentenceIndex |-> index,
                                  currentRepeat        |-> 0,
                                  isRepeating          |-> FALSE,
                                  repeatSentenceIndex  |-> -1 ])]
    ELSE r

togglePlayPauseUnchecked(s, r) ==
    IF s.isPlaying THEN [r EXCEPT !.tr = Pause(r.tr)]
    ELSE [r EXCEPT !.tr = Play(r.tr)]

togglePlayPause(s, r) ==
    IF ~audioRefCurrent THEN r
    ELSE IF s.isPlaying THEN [r EXCEPT !.tr = Pause(r.tr)]
    ELSE [r EXCEPT !.tr = Play(r.tr)]

goToPrevSentence(s, r) ==
    IF s.currentSentenceIndex > 0 THEN jumpToSentence(s, r, s.currentSentenceIndex - 1)
    ELSE IF Len(s.sentences) > 0 THEN jumpToSentence(s, r, 0)
    ELSE r

goToNextSentence(s, r) ==
    IF s.currentSentenceIndex < Len(s.sentences) - 1
    THEN jumpToSentence(s, r, s.currentSentenceIndex + 1)
    ELSE r

handleRepeatModeChangeKeepingCycle(st, mode) == updateState(st, [repeatMode |-> mode])

handleRepeatModeChange(st, mode) ==
    updateState(st, [ repeatMode          |-> mode,
                      currentRepeat       |-> 0,
                      isRepeating         |-> FALSE,
                      repeatSentenceIndex |-> -1 ])

handleRepeatCountChange(st, count) == updateState(st, [repeatCount |-> count])

(***************************************************************************)
(* The main audio effect: its dependency list, cleanup and setup           *)
(***************************************************************************)
EffectDeps(s) ==
    << s.sentences, s.repeatMode, s.repeatCount, s.currentRepeat,
       s.currentSentenceIndex, s.isRepeating, s.repeatSentenceIndex >>

\* The aligner has not been called.
NoAlignment ==
    /\ result = << >>
    /\ words = << >>
    /\ audioSegments = << >>
    /\ located = << >>
    /\ resolved = FALSE

\* The Audio Learning Studio player (frontend/src/App.tsx) as constructed:
\* its React state, its <audio> element, the playSegment call that is
\* scheduled or running (call, with the playCount of the closure it runs in)
\* and how often in a row a segment has been started (streak).
NoCall == [segmentIndex |-> -1, playCount |-> 0]

InitialStudio ==
    [ segments       |-> << >>,
      currentSegment |-> 0,
      isPlaying      |-> FALSE,
      playCount      |-> 0,
      rendered       |-> 0,
      currentTime    |-> 0,
      paused         |-> TRUE,
      phase          |-> "idle",
      call           |-> NoCall,
      streak         |-> [segment |-> -1, count |-> 0] ]

NoStudio == studio = InitialStudio

\* jumped follows the last jump of the user: phase is "jumped" from a jump
\* to index that took place with no deferred seek pending until the next
\* seek is applied or the next command is given, "awaiting" otherwise, and
\* "unobserved" where jumps are not followed.
NoJump(phase) == [phase |-> phase, index |-> -1]

Unobserved == jumped = NoJump("unobserved")

\* r is the outcome of the handler of op.
Observe(op, arg, r) ==
    IF jumped.phase = "unobserved" THEN jumped
    ELSE IF op = "jump"
         THEN IF r.tr.cmds # << >> /\ r.timers = {}
              THEN [phase |-> "jumped", index |-> arg]
              ELSE NoJump("awaiting")
    ELSE IF op = "timer" /\ r.tr.cmds # << >> THEN NoJump("awaiting")
    ELSE jumped

(***************************************************************************)
(* Initial state: the component as constructed, nothing uploaded           *)
(***************************************************************************)
PlayerIdleButStudio ==
    /\ state = InitialState
    /\ rs = InitialState
    /\ audio = FreshAudio
    /\ timers = {}
    /\ events = << >>
    /\ intervals = 0
    /\ intervalId = FALSE
    /\ leaked = {}
    /\ cmds = << >>
    /\ last = [op |-> "init", arg |-> -1]
    /\ plays = [i \in 1..Len(UploadedSentences) |-> 0]
    /\ Unobserved

PlayerIdle == PlayerIdleButStudio /\ NoStudio

Init == PlayerIdle /\ NoAlignment

\* The handler input: pending state, transport with no command issued yet,
\* deferred seeks.
Run(ev) ==
    [ state  |-> state,
      tr     |-> [audio |-> audio, events |-> ev, cmds |-> << >>],
      timers |-> timers ]

\* A user command arrives when the previous event has been fully processed.
UserCommand == state = rs /\ events = << >>

Commit(r, op, arg) ==
    /\ state' = r.state
    /\ audio' = r.tr.audio
    /\ events' = r.tr.events
    /\ cmds' = r.tr.cmds
    /\ timers' = r.timers
    /\ last' = [op |-> op, arg |-> arg]
    /\ jumped' = Observe(op, arg, r)
    /\ UNCHANGED <<plays, words, audioSegments, resolved, result, located, studio>>

(***************************************************************************)
(* Upload                                                                  *)
(***************************************************************************)
\* processUploadResponseMobile / Desktop on a response that carries sentences.
ProcessUploadResponse ==
    /\ UserCommand
    /\ state.sentences = << >>
    /\ state' = resetAudioState(updateState(state, [sentences |-> UploadedSentences]))
    /\ cmds' = << >>
    /\ last' = [op |-> "upload", arg |-> -1]
    /\ UNCHANGED <<rs, audio, timers, events, intervals, intervalId, leaked, plays, words,
                   audioSegments, resolved, result, located, studio, jumped>>

HandleNewAudioClick ==
    /\ UserCommand
    /\ state.sentences # << >>
    /\ state' = resetAllState(state)
    /\ cmds' = << >>
    /\ last' = [op |-> "newAudio", arg |-> -1]
    /\ UNCHANGED <<rs, audio, timers, events, intervals, intervalId, leaked, plays, words,
                   audioSegments, resolved, result, located, studio, jumped>>

(***************************************************************************)
(* React commit: the pending state becomes the closure of the handlers;    *)
(* when a dependency changed the effect is cleaned up and set up again.    *)
(***************************************************************************)
Render ==
    /\ state # rs
    /\ LET depsChanged == EffectDeps(state) # EffectDeps(rs)
           wasAttached == audioRef(rs)
           attach      == audioRef(state)
           element     == IF attach /\ wasAttached THEN audio ELSE FreshAudio
           cleared     == IF depsChanged /\ wasAttached /\ intervalId
                          THEN intervals - 1 ELSE intervals
           setupPlay   == depsChanged /\ attach /\ ~element.paused
       IN  /\ setupPlay => cleared < MaxIntervals
           /\ rs' = state
           /\ state' = IF setupPlay THEN handlePlay(state) ELSE state
           /\ audio' = element
           /\ events' = IF attach /\ wasAttached THEN events ELSE << >>
           /\ intervals' = IF setupPlay THEN cleared + 1 ELSE cleared
           /\ intervalId' = IF depsChanged THEN setupPlay ELSE intervalId
    /\ cmds' = << >>
    /\ last' = [op |-> "render", arg |-> -1]
    /\ UNCHANGED <<timers, leaked, plays, words,
                   audioSegments, resolved, result, located, studio, jumped>>

(***************************************************************************)
(* Notifications of the transport, dispatched in order                     *)
(***************************************************************************)
Dispatch(e) == events # << >> /\ Head(events) = e /\ audioRefCurrent

OnTimeUpdate ==
    /\ Dispatch("timeupdate")
    /\ Commit(handleTimeUpdate(rs, Run(Tail(events))), "timeupdate", audio.currentTime)
    /\ UNCHANGED <<rs, intervals, intervalId, leaked>>

\* handlePlay overwrites intervalId: an interval it held is left running with
\* the updateCurrentSentence of the render that created it.
OnPlay ==
    /\ Dispatch("play")
    /\ intervals < MaxIntervals
    /\ Commit([Run(Tail(events)) EXCEPT !.state = handlePlay(state)], "play", -1)
    /\ intervals' = intervals + 1
    /\ intervalId' = TRUE
    /\ leaked' = IF intervalId THEN leaked \cup {rs.sentences} ELSE leaked
    /\ UNCHANGED rs

OnPause ==
    /\ Dispatch("pause")
    /\ Commit([Run(Tail(events)) EXCEPT !.state = handlePause(state)], "pause", -1)
    /\ intervals' = IF intervalId THEN intervals - 1 ELSE intervals
    /\ intervalId' = FALSE
    /\ UNCHANGED <<rs, leaked>>

OnEnded ==
    /\ Dispatch("ended")
    /\ Commit(handleEnded(rs, Run(Tail(events))), "ended", -1)
    /\ intervals' = IF intervalId THEN intervals - 1 ELSE intervals
    /\ intervalId' = FALSE
    /\ UNCHANGED <<rs, leaked>>

\* A tick of a live setInterval(updateCurrentSentence, 100).
IntervalTick ==
    /\ intervals > 0
    /\ Commit([Run(events) EXCEPT !.state = updateCurrentSentence(rs, state, audio)],
              "interval", audio.currentTime)
    /\ UNCHANGED <<rs, intervals, intervalId, leaked>>

\* A deferred seek whose delay has run out.
FireTimer ==
    \E timer \in timers :
        /\ timer.delay = 0
        /\ LET r == Run(events)
           IN  Commit([ state  |-> state,
                        tr     |-> IF audioRefCurrent THEN Seek(r.tr, timer.target) ELSE r.tr,
                        timers |-> timers \ {timer} ],
                      "timer", timer.target)
        /\ UNCHANGED <<rs, intervals, intervalId, leaked>>

(***************************************************************************)
(* User commands                                                           *)
(***************************************************************************)
JumpToSentence ==
    \E index \in -1..Len(UploadedSentences) :
        /\ UserCommand
        /\ Commit(jumpToSentence(rs, Run(events), index), "jump", index)
        /\ UNCHANGED <<rs, intervals, intervalId, leaked>>

GoToPrevSentence ==
    /\ UserCommand
    /\ Commit(goToPrevSentence(rs, Run(events)), "prev", -1)
    /\ UNCHANGED <<rs, intervals, intervalId, leaked>>

GoToNextSentence ==
    /\ UserCommand
    /\ Commit(goToNextSentence(rs, Run(events)), "next", -1)
    /\ UNCHANGED <<rs, intervals, intervalId, leaked>>

TogglePlayPause ==
    /\ UserCommand
    /\ Commit(togglePlayPause(rs, Run(events)), "toggle", -1)
    /\ UNCHANGED <<rs, intervals, intervalId, leaked>>

HandleRepeatModeChange ==
    \E mode \in RepeatModes :
        /\ UserCommand
        /\ audioRefCurrent
        /\ Commit([Run(events) EXCEPT !.state = handleRepeatModeChange(state, mode)],
                  "mode", RepeatModeOption(mode))
        /\ UNCHANGED <<rs, intervals, intervalId, leaked>>

HandleRepeatCountChange ==
    \E count \in RepeatCountOptions :
        /\ UserCommand
        /\ audioRefCurrent
        /\ rs.repeatMode = "sentence"
        /\ Commit([Run(events) EXCEPT !.state = handleRepeatCountChange(state, count)],
                  "count", count)
        /\ UNCHANGED <<rs, intervals, intervalId, leaked>>

(***************************************************************************)
(* Passage of 0.1 s: every dispatched notification has been handled, the   *)
(* render is committed and no deferred seek is due.                        *)
(***************************************************************************)
Elapse ==
    /\ events = << >>
    /\ state = rs
    /\ \A timer \in timers : timer.delay > 0
    /\ timers' = {[timer EXCEPT !.delay = @ - 1] : timer \in timers}
    /\ IF audioRefCurrent /\ ~audio.paused
       THEN IF audio.currentTime + 1 >= Duration
            THEN /\ audio' = [currentTime |-> Duration, paused |-> TRUE]
                 /\ events' = <<"timeupdate", "pause", "ended">>
            ELSE /\ audio' = [audio EXCEPT !.currentTime = @ + 1]
                 /\ events' \in {<< >>, <<"timeupdate">>}
       ELSE UNCHANGED <<audio, events>>
    /\ cmds' = << >>
    /\ last' = [op |-> "advance", arg |-> -1]
    /\ UNCHANGED <<state, rs, intervals, intervalId, leaked, words,
                   audioSegments, resolved, result, located, studio, jumped>>

Advance == Elapse /\ UNCHANGED plays

Next ==
    \/ ProcessUploadResponse
    \/ HandleNewAudioClick
    \/ Render
    \/ OnTimeUpdate
    \/ OnPlay
    \/ OnPause
    \/ OnEnded
    \/ IntervalTick
    \/ FireTimer
    \/ JumpToSentence
    \/ GoToPrevSentence
    \/ GoToNextSentence
    \/ TogglePlayPause
    \/ HandleRepeatModeChange
    \/ HandleRepeatCountChange
    \/ Advance

Spec == Init /\ [][Next]_vars

(***************************************************************************)
(* Unattended playback in sentence mode: the player as it is after an      *)
(* upload, the choice of "Repeat Sentence" and of a repeat count, and a    *)
(* press on Play; from there on only the transport, the timers and React   *)
(* act.  plays[i] counts how often playback has run up to the end of       *)
(* sentence i.                                                             *)
(***************************************************************************)
PlaybackState(count) ==
    [ sentences            |-> UploadedSentences,
      isPlaying            |-> TRUE,
      currentSentenceIndex |-> -1,
      currentTime          |-> 0,
      repeatMode           |-> "sentence",
      repeatCount          |-> count,
      currentRepeat        |-> 0,
      isRepeating          |-> FALSE,
      repeatSentenceIndex  |-> -1 ]

PlaybackStart ==
    /\ \E count \in RepeatCountOptions : state = PlaybackState(count)
    /\ rs = state
    /\ audio = [currentTime |-> 0, paused |-> FALSE]
    /\ timers = {}
    /\ events = << >>
    /\ intervals = 1
    /\ intervalId = TRUE
    /\ leaked = {}
    /\ cmds = << >>
    /\ last = [op |-> "render", arg |-> -1]
    /\ plays = [i \in 1..Len(UploadedSentences) |-> 0]
    /\ NoAlignment
    /\ NoStudio

PlaybackInit == PlaybackStart /\ Unobserved

\* Elapse, counting the sentence whose end the playback position reaches.
PlayThrough ==
    /\ Elapse
    /\ IF audioRefCurrent /\ ~audio.paused
          /\ \E i \in 1..Len(UploadedSentences) :
                UploadedSentences[i].end = audio.currentTime + 1
       THEN LET i == CHOOSE j \in 1..Len(UploadedSentences) :
                       UploadedSentences[j].end = audio.currentTime + 1
            IN  /\ plays[i] < MaxPlays
                /\ plays' = [plays EXCEPT ![i] = @ + 1]
       ELSE UNCHANGED plays

PlaybackNext ==
    \/ Render
    \/ OnTimeUpdate
    \/ OnPause
    \/ OnEnded
    \/ IntervalTick
    \/ FireTimer
    \/ PlayThrough

PlaybackSpec == PlaybackInit /\ [][PlaybackNext]_vars

(***************************************************************************)
(* Unattended playback that goes on: the browser dispatches every queued   *)
(* notification, runs every due timer callback and every interval tick,    *)
(* React commits every pending render, and time passes.                    *)
(***************************************************************************)
PlaybackLiveNext ==
    \/ Render
    \/ OnTimeUpdate
    \/ OnPause
    \/ OnEnded
    \/ IntervalTick
    \/ FireTimer
    \/ Advance

PlaybackLiveSpec ==
    /\ PlaybackInit
    /\ [][PlaybackLiveNext]_vars
    /\ WF_vars(Render)
    /\ WF_vars(OnTimeUpdate)
    /\ WF_vars(OnPause)
    /\ WF_vars(OnEnded)
    /\ WF_vars(IntervalTick)
    /\ WF_vars(FireTimer)
    /\ WF_vars(Advance)

(***************************************************************************)
(* Sentence-mode playback in which the user jumps and gives no other       *)
(* command.                                                                *)
(***************************************************************************)
JumpInit == PlaybackStart /\ jumped = NoJump("awaiting")

JumpNext ==
    \/ Render
    \/ OnTimeUpdate
    \/ OnPause
    \/ OnEnded
    \/ IntervalTick
    \/ FireTimer
    \/ JumpToSentence
    \/ Advance

JumpSpec == JumpInit /\ [][JumpNext]_vars

(***************************************************************************)
(* Unattended playback in any repeat mode, from the start of the audio.    *)
(***************************************************************************)
AnyModeInit ==
    /\ \E count \in RepeatCountOptions, mode \in RepeatModes :
          state = [PlaybackState(count) EXCEPT !.repeatMode = mode]
    /\ rs = state
    /\ audio = [currentTime |-> 0, paused |-> FALSE]
    /\ timers = {}
    /\ events = << >>
    /\ intervals = 1
    /\ intervalId = TRUE
    /\ leaked = {}
    /\ cmds = << >>
    /\ last = [op |-> "render", arg |-> -1]
    /\ plays = [i \in 1..Len(UploadedSentences) |-> 0]
    /\ NoAlignment
    /\ NoStudio
    /\ Unobserved

AnyModeNext ==
    \/ Render
    \/ OnTimeUpdate
    \/ OnPlay
    \/ OnPause
    \/ OnEnded
    \/ IntervalTick
    \/ FireTimer
    \/ Advance

AnyModeSpec == AnyModeInit /\ [][AnyModeNext]_vars

(***************************************************************************)
(* handleRepeatCountChange as a function of its argument: the handler      *)
(* applied, in sentence mode between and during repeat cycles, to counts   *)
(* that include values below 1.                                            *)
(***************************************************************************)
CountInputs == {-1, 0, 1, 2, 3}

RepeatCountStates ==
    { [PlaybackState(count) EXCEPT !.isPlaying = FALSE,
                                   !.currentSentenceIndex = index,
                                   !.currentRepeat = k,
                                   !.isRepeating = (k > 0),
                                   !.repeatSentenceIndex = IF k > 0 THEN index ELSE -1] :
        count \in RepeatCountOptions,
        index \in 0..(Len(UploadedSentences) - 1),
        k \in 0..InitialRepeatCount }

RepeatCountInit ==
    /\ state \in { st \in RepeatCountStates : st.currentRepeat <= st.repeatCount }
    /\ rs = state
    /\ audio = FreshAudio
    /\ timers = {}
    /\ events = << >>
    /\ intervals = 0
    /\ intervalId = FALSE
    /\ leaked = {}
    /\ cmds = << >>
    /\ last = [op |-> "render", arg |-> -1]
    /\ plays = [i \in 1..Len(UploadedSentences) |-> 0]
    /\ NoAlignment
    /\ NoStudio
    /\ Unobserved

SetRepeatCount ==
    \E count \in CountInputs :
        /\ audioRefCurrent
        /\ Commit([Run(events) EXCEPT !.state = handleRepeatCountChange(state, count)],
                  "count", count)
        /\ UNCHANGED <<rs, intervals, intervalId, leaked>>

RepeatCountNext == SetRepeatCount \/ Render

RepeatCountSpec == RepeatCountInit /\ [][RepeatCountNext]_vars

(***************************************************************************)
(* The sentence aligner (AudioProcessor.ts).  A text is a sequence of      *)
(* one-character strings; a word is [word, start, end].                    *)
(***************************************************************************)
Whitespace == {" ", "\n"}
SentenceEnd == {".", "!", "?"}

\* The word texts the transcription is drawn from: "a", " a", " a.", "  a.",
\* "a. a." (one word holding a sentence boundary) and "\na.".
WordTexts ==
    { << "a" >>, << " ", "a" >>, << " ", "a", "." >>, << " ", " ", "a", "." >>,
      << "a", ".", " ", "a", "." >>, << "\n", "a", "." >> }

RECURSIVE joinWords(_)
joinWords(ws) == IF ws = << >> THEN << >> ELSE Head(ws).word \o joinWords(Tail(ws))

removeNewlines(text) == SelectSeq(text, LAMBDA c : c # "\n")

RECURSIVE trimStart(_)
trimStart(text) ==
    IF text # << >> /\ Head(text) \in Whitespace THEN trimStart(Tail(text)) ELSE text

RECURSIVE trimEnd(_)
trimEnd(text) ==
    IF text # << >> /\ text[Len(text)] \in Whitespace
    THEN trimEnd(SubSeq(text, 1, Len(text) - 1))
    ELSE text

trim(text) == trimEnd(trimStart(text))

\* text.replace(/\s+/g, ' ')
RECURSIVE collapseWhitespace(_)
collapseWhitespace(text) ==
    IF text = << >> THEN << >>
    ELSE IF Head(text) \in Whitespace
         THEN << " " >> \o collapseWhitespace(trimStart(text))
         ELSE << Head(text) >> \o collapseWhitespace(Tail(text))

\* text.split(/(?<=[.!?])\s+/): the pieces between the whitespace runs that
\* follow a sentence end; piece is the one being read at position i.
RECURSIVE splitAfterSentenceEnd(_, _, _)
splitAfterSentenceEnd(text, i, piece) ==
    IF i > Len(text) THEN << piece >>
    ELSE IF text[i] \in Whitespace /\ i > 1 /\ text[i - 1] \in SentenceEnd
         THEN LET rest == trimStart(SubSeq(text, i, Len(text)))
              IN  << piece >> \o splitAfterSentenceEnd(rest, 1, << >>)
         ELSE splitAfterSentenceEnd(text, i + 1, Append(piece, text[i]))

RECURSIVE trimAll(_)
trimAll(pieces) ==
    IF pieces = << >> THEN << >> ELSE << trim(Head(pieces)) >> \o trimAll(Tail(pieces))

tokenizeWhole(text) == << trim(collapseWhitespace(text)) >>

tokenizeSentences(text) ==
    LET cleanText == trim(collapseWhitespace(text))
        pieces == splitAfterSentenceEnd(cleanText, 1, << >>)
    IN  trimAll(SelectSeq(pieces, LAMBDA sentence : Len(trim(sentence)) > 0))

\* charToWord[c + 1] is the index (from 0) of the word that character c of
\* the joined words belongs to.
RECURSIVE charToWordFrom(_, _)
charToWordFrom(ws, wordIdx) ==
    IF wordIdx >= Len(ws) THEN << >>
    ELSE [i \in 1..Len(ws[wordIdx + 1].word) |-> wordIdx] \o charToWordFrom(ws, wordIdx + 1)

buildCharToWordMappingAfterFirst(ws) == charToWordFrom(ws, 1)

buildCharToWordMapping(ws) == charToWordFrom(ws, 0)

\* String.prototype.indexOf(pattern, from), positions counted from 0.
RECURSIVE indexOf(_, _, _)
indexOf(text, pattern, from) ==
    IF from + Len(pattern) > Len(text) THEN -1
    ELSE IF SubSeq(text, from + 1, from + Len(pattern)) = pattern THEN from
    ELSE indexOf(text, pattern, from + 1)

fullTextOf(ws) == trim(removeNewlines(joinWords(ws)))

\* prevEnd = end: the search for the next sentence starts where this one ends.
nextSearchStartKept(end) == 0

nextSearchStart(end) == end

\* The loop of processTranscriptionIntoSegments from sentence i on.
RECURSIVE segmentsFrom(_, _, _, _, _)
segmentsFrom(ws, sentences, i, prevEnd, segments) ==
    IF i >= Len(sentences) THEN segments
    ELSE LET fullText == fullTextOf(ws)
             charToWord == buildCharToWordMapping(ws)
             sentence == trim(sentences[i + 1])
             start == indexOf(fullText, sentence, prevEnd)
             end == start + Len(sentence)
             skip == segmentsFrom(ws, sentences, i + 1, prevEnd, segments)
         IN  IF sentence = << >> THEN skip
             ELSE IF start = -1 THEN skip
             ELSE IF start >= Len(charToWord) \/ end - 1 >= Len(charToWord) THEN skip
             ELSE LET wordStartIdx == charToWord[start + 1]
                      wordEndIdx == charToWord[end]
                      audioSegment == [ id        |-> i + 1,
                                        text      |-> sentence,
                                        startTime |-> ws[wordStartIdx + 1].start,
                                        endTime   |-> ws[wordEndIdx + 1].end ]
                  IN  segmentsFrom(ws, sentences, i + 1, nextSearchStart(end),
                                   Append(segments, audioSegment))

\* The character range [start, end) of each sentence that the loop of
\* processTranscriptionIntoSegments turns into a segment.
RECURSIVE locatedFrom(_, _, _, _, _)
locatedFrom(ws, sentences, i, prevEnd, ranges) ==
    IF i >= Len(sentences) THEN ranges
    ELSE LET fullText == fullTextOf(ws)
             charToWord == buildCharToWordMapping(ws)
             sentence == trim(sentences[i + 1])
             start == indexOf(fullText, sentence, prevEnd)
             end == start + Len(sentence)
             skip == locatedFrom(ws, sentences, i + 1, prevEnd, ranges)
         IN  IF sentence = << >> THEN skip
             ELSE IF start = -1 THEN skip
             ELSE IF start >= Len(charToWord) \/ end - 1 >= Len(charToWord) THEN skip
             ELSE locatedFrom(ws, sentences, i + 1, nextSearchStart(end),
                              Append(ranges, [start |-> start, end |-> end]))

\* A transcription segment is a record that has a words field or lacks it;
\* its text is not read by the aligner and is left empty.
SegmentOf(ws) == [text |-> << >>, words |-> ws]
SegmentWithoutWords == [text |-> << >>]

\* words.push(...(segment.words || [])) over result.segments.
RECURSIVE gatherWords(_)
gatherWords(segments) ==
    IF segments = << >> THEN << >>
    ELSE (IF "words" \in DOMAIN Head(segments) THEN Head(segments).words ELSE << >>)
         \o gatherWords(Tail(segments))

processTranscriptionIntoSegmentsSilence(segments) ==
    LET ws == gatherWords(segments)
    IN  IF Len(ws) = 0 THEN << [id |-> 1, text |-> << >>, startTime |-> 0, endTime |-> 0] >>
        ELSE segmentsFrom(ws, tokenizeSentences(fullTextOf(ws)), 0, 0, << >>)

processTranscriptionIntoSegments(segments) ==
    LET ws == gatherWords(segments)
    IN  IF Len(ws) = 0 THEN << >>
        ELSE segmentsFrom(ws, tokenizeSentences(fullTextOf(ws)), 0, 0, << >>)

locatedSentences(ws) ==
    IF Len(ws) = 0 THEN << >>
    ELSE locatedFrom(ws, tokenizeSentences(fullTextOf(ws)), 0, 0, << >>)

\* Word times as the transcription gives them: start and end of each word in
\* non-decreasing order.
WordTimes(n) ==
    { t \in [1..(2 * n) -> 0..MaxTime] : \A k \in 1..(2 * n - 1) : t[k] <= t[k + 1] }

\* The transcription holds its words in one segment, or has no segment.
OneSegment(ws) == IF ws = << >> THEN << >> ELSE << SegmentOf(ws) >>

NotCalled == words = << >> /\ audioSegments = << >> /\ located = << >> /\ resolved = FALSE

AlignerInit ==
    /\ PlayerIdle
    /\ \E n \in 0..MaxWords :
         \E t \in WordTimes(n) :
           \E texts \in [1..n -> WordTexts] :
             result = OneSegment([k \in 1..n |-> [ word  |-> texts[k],
                                                   start |-> t[2 * k - 1],
                                                   end   |-> t[2 * k] ]])
    /\ NotCalled

ProcessTranscription ==
    /\ ~resolved
    /\ words' = gatherWords(result)
    /\ audioSegments' = processTranscriptionIntoSegments(result)
    /\ located' = locatedSentences(gatherWords(result))
    /\ resolved' = TRUE
    /\ UNCHANGED <<result, state, rs, audio, timers, events, intervals, intervalId, leaked,
                   cmds,
                   last, plays, studio, jumped>>

AlignerNext == ProcessTranscription

AlignerSpec == AlignerInit /\ [][AlignerNext]_vars

\* Longer transcripts, for the search of each sentence in the joined text:
\* every word lasts one unit and starts where the word before it ends.
LongTranscriptInit ==
    /\ PlayerIdle
    /\ \E n \in 0..MaxLongWords :
         \E texts \in [1..n -> WordTexts] :
           result = OneSegment([k \in 1..n |-> [ word  |-> texts[k],
                                                 start |-> k - 1,
                                                 end   |-> k ]])
    /\ NotCalled

LongTranscriptSpec == LongTranscriptInit /\ [][AlignerNext]_vars

\* Transcriptions of several segments: a segment has no words field, an
\* empty word list, or one word; the word of segment k lasts from k - 1 to k.
SegmentedTranscriptInit ==
    /\ PlayerIdle
    /\ \E n \in 0..MaxSegments :
         \E missing \in SUBSET (1..n) :
           \E texts \in [1..n -> WordTexts \cup {<< >>}] :
             result = [k \in 1..n |->
                         IF k \in missing THEN SegmentWithoutWords
                         ELSE IF texts[k] = << >> THEN SegmentOf(<< >>)
                         ELSE SegmentOf(<< [word |-> texts[k], start |-> k - 1, end |-> k] >>)]
    /\ NotCalled

SegmentedTranscriptSpec == SegmentedTranscriptInit /\ [][AlignerNext]_vars

(***************************************************************************)
(* End to end: the words "Hi." from 0 to 1 s and " Bye." from 1 to 2 s are  *)
(* aligned, the resolved segments become the sentence list of the player,  *)
(* and the transport reports positions between 0 and MaxSampleTime.        *)
(***************************************************************************)
ExampleWords ==
    << [word |-> << "H", "i", "." >>, start |-> 0, end |-> 10],
       [word |-> << " ", "B", "y", "e", "." >>, start |-> 10, end |-> 20] >>

EndToEndInit ==
    /\ PlayerIdle
    /\ result = OneSegment(ExampleWords)
    /\ NotCalled

SentencesOf(segments) ==
    [k \in 1..Len(segments) |->
        [start |-> segments[k].startTime, end |-> segments[k].endTime]]

\* The upload response carries the resolved segments as its sentences.
LoadSegments ==
    /\ resolved
    /\ UserCommand
    /\ state.sentences = << >>
    /\ Len(SentencesOf(audioSegments)) > 0
    /\ state' = resetAudioState(updateState(state, [sentences |-> SentencesOf(audioSegments)]))
    /\ cmds' = << >>
    /\ last' = [op |-> "upload", arg |-> -1]
    /\ UNCHANGED <<rs, audio, timers, events, intervals, intervalId, leaked, plays, words,
                   audioSegments, resolved, result, located, studio, jumped>>

\* A time-changed notification handled with the transport at position t.
SampleAt ==
    \E t \in 0..MaxSampleTime :
        /\ UserCommand
        /\ audioRefCurrent
        /\ LET r == Run(events)
           IN  Commit(handleTimeUpdate(rs, [r EXCEPT !.tr.audio.currentTime = t]),
                      "timeupdate", t)
        /\ UNCHANGED <<rs, intervals, intervalId, leaked>>

EndToEndNext ==
    \/ ProcessTranscription
    \/ LoadSegments
    \/ Render
    \/ SampleAt

EndToEndSpec == EndToEndInit /\ [][EndToEndNext]_vars

(***************************************************************************)
(* The Audio Learning Studio player: playSegment and the calls of itself   *)
(* that it schedules, with no user interaction after the first click.      *)
(* playSegment is a function of the render it was created in: the          *)
(* playCount it reads, and the playSegment its timeouts call, are those of *)
(* that render.                                                            *)
(***************************************************************************)
StudioSegments ==
    << [startTime |-> 0, endTime |-> 2],
       [startTime |-> 2, endTime |-> 4],
       [startTime |-> 4, endTime |-> 6] >>

StudioInit ==
    /\ PlayerIdleButStudio
    /\ NoAlignment
    /\ \E i \in 0..(Len(StudioSegments) - 1) :
         studio = [InitialStudio EXCEPT !.segments = StudioSegments, !.currentSegment = i]

\* playSegment up to the resolution of audio.play(), called in a closure
\* that holds playCount.
playSegment(st, segmentIndex, playCount) ==
    IF segmentIndex < 0 \/ segmentIndex >= Len(st.segments) THEN [st EXCEPT !.phase = "idle"]
    ELSE [st EXCEPT !.isPlaying = TRUE,
                    !.currentSegment = segmentIndex,
                    !.currentTime = st.segments[segmentIndex + 1].startTime,
                    !.paused = FALSE,
                    !.phase = "playing",
                    !.call = [segmentIndex |-> segmentIndex, playCount |-> playCount],
                    !.streak = IF st.streak.segment = segmentIndex
                               THEN [st.streak EXCEPT !.count = @ + 1]
                               ELSE [segment |-> segmentIndex, count |-> 1]]

\* checkTime of the running call: its playCount and segmentIndex are those
\* of the call, not of the latest render.
checkTime(st) ==
    LET segmentIndex == st.call.segmentIndex
        segment == st.segments[segmentIndex + 1]
        stopped == [st EXCEPT !.paused = TRUE, !.isPlaying = FALSE]
    IN  IF st.currentTime >= segment.endTime
        THEN IF st.call.playCount = 0
             THEN [stopped EXCEPT !.playCount = 1, !.phase = "scheduled"]
             ELSE IF segmentIndex < Len(st.segments) - 1
                  THEN [stopped EXCEPT !.playCount = 0,
                                       !.phase = "scheduled",
                                       !.call = [st.call EXCEPT !.segmentIndex = segmentIndex + 1]]
                  ELSE [stopped EXCEPT !.playCount = 0, !.phase = "idle", !.call = NoCall]
        ELSE st

StudioStep(st) ==
    /\ studio' = st
    /\ UNCHANGED <<state, rs, audio, timers, events, intervals, intervalId, leaked, cmds, last,
                   plays,
                   words, audioSegments, resolved, result, located, jumped>>

\* The click on Play: playSegment(currentSegment) of the current render.
ClickPlay ==
    /\ studio.phase = "idle"
    /\ studio.streak.count = 0
    /\ studio.rendered = studio.playCount
    /\ StudioStep(playSegment(studio, studio.currentSegment, studio.rendered))

\* An animation frame of the running call.
CheckTime ==
    /\ studio.phase = "playing"
    /\ StudioStep(checkTime(studio))

\* The timeout set by checkTime runs: it calls the playSegment of the
\* closure that set it.
ScheduledPlay ==
    /\ studio.phase = "scheduled"
    /\ studio.streak.count < MaxStreak
    /\ StudioStep(playSegment(studio, studio.call.segmentIndex, studio.call.playCount))

\* React renders the component with the playCount set last.
StudioRender ==
    /\ studio.rendered # studio.playCount
    /\ StudioStep([studio EXCEPT !.rendered = studio.playCount])

\* The audio plays on.
StudioElapse ==
    /\ ~studio.paused
    /\ studio.currentTime < studio.segments[Len(studio.segments)].endTime
    /\ StudioStep([studio EXCEPT !.currentTime = @ + 1])

StudioNext ==
    \/ ClickPlay
    \/ CheckTime
    \/ ScheduledPlay
    \/ StudioRender
    \/ StudioElapse

StudioSpec == StudioInit /\ [][StudioNext]_vars

(***************************************************************************)
(* The player with React's handling of discrete events: the state update   *)
(* made by a click or key handler is rendered before any notification,     *)
(* timer callback or interval tick is handled.                             *)
(***************************************************************************)
DiscreteEvents == {"newAudio", "jump", "prev", "next", "toggle", "mode", "count"}

Flushed == last.op \in DiscreteEvents => state = rs

FlushedNext ==
    \/ ProcessUploadResponse
    \/ HandleNewAudioClick
    \/ Render
    \/ Flushed /\ OnTimeUpdate
    \/ Flushed /\ OnPlay
    \/ Flushed /\ OnPause
    \/ Flushed /\ OnEnded
    \/ Flushed /\ IntervalTick
    \/ Flushed /\ FireTimer
    \/ JumpToSentence
    \/ GoToPrevSentence
    \/ GoToNextSentence
    \/ TogglePlayPause
    \/ HandleRepeatModeChange
    \/ HandleRepeatCountChange
    \/ Advance

FlushedSpec == Init /\ [][FlushedNext]_vars

(***************************************************************************)
(* A second upload: playback in the mode all runs to the end of the audio  *)
(* and restarts, the user clicks New Audio and the next upload response    *)
(* carries a shorter sentence list.  An interval that no effect clears     *)
(* goes on calling the updateCurrentSentence of the render that created    *)
(* it, which locates the time in the sentence list of that render.         *)
(***************************************************************************)
ShorterSentences == << [start |-> 0, end |-> 2] >>

ReloadInit == AnyModeInit /\ state.repeatMode = "all" /\ state.repeatCount = InitialRepeatCount

ProcessShorterUploadResponse ==
    /\ UserCommand
    /\ state.sentences = << >>
    /\ state' = resetAudioState(updateState(state, [sentences |-> ShorterSentences]))
    /\ cmds' = << >>
    /\ last' = [op |-> "upload", arg |-> -1]
    /\ UNCHANGED <<rs, audio, timers, events, intervals, intervalId, leaked, plays, words,
                   audioSegments, resolved, result, located, studio, jumped>>

\* A tick of the interval held by the current effect.
EffectIntervalTick == Flushed /\ intervalId /\ IntervalTick

\* A tick of an interval whose id was overwritten by a second handlePlay.
LeakedIntervalTick ==
    \E sentences \in leaked :
        /\ Flushed
        /\ Commit([Run(events) EXCEPT
                      !.state = updateCurrentSentence([sentences |-> sentences], state, audio)],
                  "interval", audio.currentTime)
        /\ UNCHANGED <<rs, intervals, intervalId, leaked>>

ReloadNext ==
    \/ Render
    \/ Flushed /\ OnTimeUpdate
    \/ Flushed /\ OnPlay
    \/ Flushed /\ OnPause
    \/ Flushed /\ OnEnded
    \/ EffectIntervalTick
    \/ LeakedIntervalTick
    \/ HandleNewAudioClick
    \/ ProcessShorterUploadResponse
    \/ TogglePlayPause
    \/ Advance

ReloadSpec == ReloadInit /\ [][ReloadNext]_vars

(***************************************************************************)
(* The Audio Learning Studio player with its controls: after the first     *)
(* press on Play the user may stop the playback or step to the previous or *)
(* the next segment.  last records the control used last and the segment   *)
(* it selected.                                                            *)
(***************************************************************************)
stopPlayback(st) == [st EXCEPT !.paused = TRUE, !.isPlaying = FALSE, !.playCount = 0]

previousSegment(st) ==
    IF st.currentSegment > 0
    THEN [stopPlayback(st) EXCEPT !.currentSegment = st.currentSegment - 1]
    ELSE st

nextSegment(st) ==
    IF st.currentSegment < Len(st.segments) - 1
    THEN [stopPlayback(st) EXCEPT !.currentSegment = st.currentSegment + 1]
    ELSE st

StudioControl(st, op) ==
    /\ studio.rendered = studio.playCount
    /\ studio' = st
    /\ last' = [op |-> op, arg |-> st.currentSegment]
    /\ UNCHANGED <<state, rs, audio, timers, events, intervals, intervalId, leaked, cmds,
                   plays, words, audioSegments, resolved, result, located, jumped>>

\* The play button while nothing plays: playSegment(currentSegment).
PressPlay ==
    /\ studio.phase = "idle"
    /\ studio.streak.count = 0
    /\ StudioControl(playSegment(studio, studio.currentSegment, studio.rendered), "playSegment")

\* The play button while isPlaying: stopPlayback().
StopPlayback ==
    /\ studio.isPlaying
    /\ StudioControl(stopPlayback(studio), "stopPlayback")

\* The buttons are disabled at the first and at the last segment.
PreviousSegment ==
    /\ studio.currentSegment # 0
    /\ StudioControl(previousSegment(studio), "previousSegment")

NextSegment ==
    /\ studio.currentSegment # Len(studio.segments) - 1
    /\ StudioControl(nextSegment(studio), "nextSegment")

StudioControlNext ==
    \/ PressPlay
    \/ StopPlayback
    \/ PreviousSegment
    \/ NextSegment
    \/ CheckTime
    \/ ScheduledPlay
    \/ StudioRender
    \/ StudioElapse

StudioControlSpec == StudioInit /\ [][StudioControlNext]_vars

(***************************************************************************)
(* Properties                                                              *)
(***************************************************************************)
ScheduledOnly(target, delay) ==
    timers' = timers \cup {[target |-> target, delay |-> delay]}

\* A time-changed sample handled with up-to-date handlers, in sentence mode,
\* at the end of the current sentence, the cycle (if any) being its own and
\* the counter not left over from a cycle that a command interrupted.
SentenceEndSample ==
    /\ last'.op = "timeupdate"
    /\ state = rs
    /\ rs.repeatMode = "sentence"
    /\ rs.currentSentenceIndex >= 0
    /\ audio.currentTime >=
          SentenceAt(rs.sentences, rs.currentSentenceIndex).end - EndTolerance
    /\ rs.isRepeating => rs.repeatSentenceIndex = rs.currentSentenceIndex
    /\ ~rs.isRepeating => rs.currentRepeat = 0

\* C1: with repeatCount = 3, the sentence-end samples that find currentRepeat
\* at 0, 1 and 2 each schedule a seek back to the sentence start 100 ms later
\* and make currentRepeat 1, 2 and 3; the one that finds it at 3 ends the
\* cycle and schedules the seek to the next sentence's start; currentRepeat
\* never exceeds 3.
C1_ThreeReplaysThenAdvance ==
    [][ (SentenceEndSample /\ rs.repeatCount = 3)
        => LET i == rs.currentSentenceIndex
               k == rs.currentRepeat
           IN  /\ state'.currentRepeat <= 3
               /\ IF k < 3
                  THEN /\ state'.currentRepeat = k + 1
                       /\ state'.isRepeating
                       /\ state'.repeatSentenceIndex = i
                       /\ ScheduledOnly(SentenceAt(rs.sentences, i).start, ReplayDelay)
                  ELSE /\ ~state'.isRepeating
                       /\ state'.currentRepeat = 0
                       /\ i + 1 < Len(rs.sentences)
                            => ScheduledOnly(SentenceAt(rs.sentences, i + 1).start,
                                             AdvanceDelay) ]_vars

\* The fourth sentence-end sample of sentence 0 has just been handled.
C1_Witness ==
    /\ last.op = "timeupdate"
    /\ rs.repeatMode = "sentence" /\ rs.repeatCount = 3
    /\ rs.currentSentenceIndex = 0 /\ rs.isRepeating /\ rs.currentRepeat = 3
    /\ ~state.isRepeating /\ state.currentRepeat = 0
    /\ [target |-> UploadedSentences[2].start, delay |-> AdvanceDelay] \in timers

\* C2: in unattended sentence-mode playback a sentence is played repeatCount
\* times, not more: playback never runs up to the end of the first sentence
\* more often than repeatCount.
C2_PlayedRepeatCountTimes == plays[1] <= rs.repeatCount

\* C3: a jump to a valid index sets currentSentenceIndex to it, clears the
\* repeat cycle and seeks the transport to that sentence's start, whatever
\* the state it is called in.
C3_JumpResetsCycle ==
    (last.op = "jump" /\ audioRefCurrent /\ last.arg >= 0 /\ last.arg < Len(rs.sentences))
    => /\ state.currentSentenceIndex = last.arg
       /\ ~state.isRepeating
       /\ state.currentRepeat = 0
       /\ cmds = << [op |-> "seek", t |-> SentenceAt(rs.sentences, last.arg).start] >>
       /\ audio.currentTime = SentenceAt(rs.sentences, last.arg).start

\* A jump to the other sentence made mid-cycle (1 of 3).
C3_Witness ==
    /\ last.op = "jump" /\ audioRefCurrent
    /\ rs.isRepeating /\ rs.currentRepeat = 1 /\ rs.repeatCount = 3
    /\ last.arg >= 0 /\ last.arg < Len(rs.sentences)
    /\ last.arg # rs.currentSentenceIndex
    /\ state.currentSentenceIndex = last.arg

\* A command after which, by C4, no earlier deferred seek may be applied: a
\* jump that took place, or a change of the repeat mode away from sentence.
CancellingCommand ==
    \/ last.op = "jump" /\ cmds # << >>
    \/ last.op = "mode" /\ state.repeatMode # "sentence"

\* C4: a deferred seek that was pending when the user jumped or switched the
\* repeat mode away from sentence is not applied to the transport: the step
\* right after such a command is never a timer callback assigning currentTime.
C4_NoStaleSeek ==
    [][ ~(CancellingCommand /\ last'.op = "timer" /\ cmds' # << >>) ]_vars

\* C5: while a repeat cycle is in progress there is a current sentence.
C5_RepeatingHasSentence == state.isRepeating => state.currentSentenceIndex # -1

\* C6: currentRepeat stays within 0..repeatCount.
C6_RepeatWithinCount ==
    state.currentRepeat >= 0 /\ state.currentRepeat <= state.repeatCount

\* C7: when currentSentenceIndex changes to anything but the sentence of the
\* cycle in progress (the sentence a replay seeks back to), the new index
\* comes with isRepeating = FALSE and currentRepeat = 0.
C7_IndexChangeResetsCycle ==
    [][ (state'.currentSentenceIndex # state.currentSentenceIndex
         /\ state'.currentSentenceIndex # state'.repeatSentenceIndex)
        => (~state'.isRepeating /\ state'.currentRepeat = 0) ]_vars

\* The lowest index of a sentence whose closed interval holds time, -1 if none.
LowestContaining(sentences, time) ==
    LET holding == { i \in 0..(Len(sentences) - 1) :
                       sentences[i + 1].start <= time /\ time <= sentences[i + 1].end }
    IN  IF holding = {} THEN -1
        ELSE CHOOSE i \in holding : \A j \in holding : i <= j

C9_EndedRestartsOnlyInAll ==
    last.op = "ended"
        => cmds = IF state.repeatMode = "all"
                  THEN << [op |-> "seek", t |-> 0], [op |-> "play"] >>
                  ELSE << >>

C9_Witness ==
    /\ last.op = "ended"
    /\ state.repeatMode = "all"
    /\ cmds = << [op |-> "seek", t |-> 0], [op |-> "play"] >>
    /\ ~audio.paused
    /\ audio.currentTime = 0

\* C10: a jump to an index below 0 or at or above the number of sentences
\* changes no state field, issues no transport command and schedules nothing.
C10_OutOfRangeJumpIsNoOp ==
    [][ (last'.op = "jump" /\ (last'.arg < 0 \/ last'.arg >= Len(rs.sentences)))
        => (state' = state /\ audio' = audio /\ events' = events
            /\ timers' = timers /\ cmds' = << >>) ]_vars

\* An out-of-range jump issued mid-cycle left the cycle as it was.
C10_Witness ==
    /\ last.op = "jump"
    /\ audioRefCurrent
    /\ last.arg = Len(rs.sentences)
    /\ state = rs
    /\ state.isRepeating
    /\ state.currentSentenceIndex = 0
    /\ cmds = << >>

EmptySequenceStep ==
    rs.sentences = << >> /\ state.sentences = << >> /\ state'.sentences = << >>

C13_ModeChangeResetsCycle ==
    last.op = "mode"
        => /\ state.repeatMode = RepeatModeOrder[last.arg]
           /\ ~state.isRepeating
           /\ state.currentRepeat = 0
           /\ state.currentSentenceIndex = rs.currentSentenceIndex
           /\ state.repeatCount = rs.repeatCount
           /\ state.isPlaying = rs.isPlaying

\* The mode was changed in the middle of a cycle, at currentRepeat = 2.
C13_Witness ==
    /\ last.op = "mode"
    /\ rs.isRepeating
    /\ rs.currentRepeat = 2
    /\ rs.repeatMode = "sentence"
    /\ state.repeatMode = "all"
    /\ ~state.isRepeating
    /\ state.currentRepeat = 0

\* A time-changed sample at the end of the current sentence, handled in
\* sentence mode while a cycle on that sentence has currentRepeat equal to
\* repeatCount.
CycleEndSample ==
    /\ last'.op = "timeupdate"
    /\ rs.repeatMode = "sentence"
    /\ rs.currentSentenceIndex >= 0
    /\ rs.isRepeating
    /\ rs.repeatSentenceIndex = rs.currentSentenceIndex
    /\ rs.currentRepeat = rs.repeatCount
    /\ audio.currentTime >=
          SentenceAt(rs.sentences, rs.currentSentenceIndex).end - EndTolerance

\* C14: such a sample ends the cycle (isRepeating = FALSE, currentRepeat = 0)
\* and schedules the seek to the start of sentence i + 1 and no other seek
\* when that sentence exists; otherwise it pauses the transport and schedules
\* nothing.
C14_CycleEndAdvancesOrStops ==
    [][ CycleEndSample
        => LET i == rs.currentSentenceIndex
           IN  /\ ~state'.isRepeating
               /\ state'.currentRepeat = 0
               /\ IF i + 1 < Len(rs.sentences)
                  THEN /\ ScheduledOnly(SentenceAt(rs.sentences, i + 1).start, AdvanceDelay)
                       /\ cmds' = << >>
                  ELSE /\ timers' = timers
                       /\ cmds' = << [op |-> "pause"] >>
                       /\ audio'.paused ]_vars

\* The cycle on the last sentence has ended with a pause.
C14_Witness ==
    /\ last.op = "timeupdate"
    /\ rs.repeatMode = "sentence"
    /\ rs.isRepeating
    /\ rs.currentSentenceIndex = Len(rs.sentences) - 1
    /\ rs.repeatSentenceIndex = rs.currentSentenceIndex
    /\ rs.currentRepeat = rs.repeatCount
    /\ ~state.isRepeating
    /\ state.currentRepeat = 0
    /\ cmds = << [op |-> "pause"] >>
    /\ audio.paused

\* C15: in unattended sentence-mode playback every repeat cycle is bounded,
\* so the deferred seeks come to an end: from some moment on no seek back to
\* a sentence start (and no seek on to the next sentence) is applied any more.
C15_RepeatCycleBounded == <>[](last.op # "timer")

\* The events that C16 says leave isPlaying alone: position samples, deferred
\* seeks, jumps, the passage of time and changes of repeat mode or count.
KeepsPlaying ==
    {"timeupdate", "interval", "timer", "advance", "jump", "prev", "next", "mode", "count"}

\* C16: isPlaying is TRUE after a play notification is handled and FALSE
\* after a pause or ended notification, no position sample, jump, mode
\* change or count change alters it, and once every notification is handled
\* and rendered it tells whether the transport is playing.
C16_IsPlayingMirrorsTransport ==
    [][ /\ last'.op = "play" => state'.isPlaying
        /\ last'.op \in {"pause", "ended"} => ~state'.isPlaying
        /\ last'.op \in KeepsPlaying => state'.isPlaying = state.isPlaying
        /\ (events' = << >> /\ state' = rs')
              => state'.isPlaying = (audioRef(rs') /\ ~audio'.paused) ]_vars

\* A pause notification handled while isPlaying was TRUE.
C16_Witness ==
    /\ last.op = "pause"
    /\ rs.isPlaying
    /\ ~state.isPlaying
    /\ audio.paused

\* C17: the resolved segments are in non-decreasing startTime order and each
\* has startTime < endTime, also for one-word sentences and for words whose
\* start equals their end.
C17_SegmentsOrderedAndNonEmpty ==
    resolved =>
        /\ \A i \in 1..(Len(audioSegments) - 1) :
              audioSegments[i].startTime <= audioSegments[i + 1].startTime
        /\ \A i \in 1..Len(audioSegments) :
              audioSegments[i].startTime < audioSegments[i].endTime

\* C18: for words with non-decreasing times, consecutive resolved segments
\* do not overlap: each ends no later than the next one starts.
C18_SegmentsDoNotOverlap ==
    resolved =>
        \A i \in 1..(Len(audioSegments) - 1) :
            audioSegments[i].endTime <= audioSegments[i + 1].startTime

\* The sentences as they stand in the joined text, and those among them that
\* can be located there: the ones no whitespace run was collapsed in.
SentencesInText ==
    trimAll(SelectSeq(splitAfterSentenceEnd(fullTextOf(words), 1, << >>),
                      LAMBDA raw : Len(trim(raw)) > 0))
LocatableSentences == SelectSeq(SentencesInText, LAMBDA raw : collapseWhitespace(raw) = raw)

\* C19: the aligner resolves for every input, and the texts of its segments
\* are, in transcript order, the sentences that can be located: a sentence
\* that cannot be located is left out alone.
C19_UnmatchedSentenceOmittedAlone ==
    resolved =>
        /\ Len(audioSegments) = Len(LocatableSentences)
        /\ \A k \in 1..Len(audioSegments) :
              audioSegments[k].text = LocatableSentences[k]

\* No segment of the transcription carries a word.
NoWords ==
    \A k \in 1..Len(result) :
        "words" \notin DOMAIN result[k] \/ result[k].words = << >>

\* C21: a transcription without words (no segments, or segments whose word
\* lists are empty or missing) resolves to the empty segment sequence.
C21_NoWordsNoSegments == (resolved /\ NoWords) => audioSegments = << >>

\* Resolved from two segments, one without a word list and one with an empty
\* one.
C21_Witness ==
    /\ resolved
    /\ Len(result) = 2
    /\ "words" \notin DOMAIN result[1]
    /\ "words" \in DOMAIN result[2]
    /\ result[2].words = << >>
    /\ audioSegments = << >>

\* The offsets at or after from where the sentence stands in the text.
OccurrencesFrom(text, sentence, from) ==
    { p \in from..(Len(text) - Len(sentence)) :
        SubSeq(text, p + 1, p + Len(sentence)) = sentence }

\* C22: each sentence that gets a segment is located at its first occurrence
\* at or after the end of the sentence located before it, so the character
\* ranges of the located sentences are strictly increasing and disjoint.
C22_MonotonicSearchCursor ==
    resolved =>
        /\ Len(located) = Len(audioSegments)
        /\ \A k \in 1..Len(located) :
              LET prevEnd == IF k = 1 THEN 0 ELSE located[k - 1].end
                  sentence == audioSegments[k].text
                  occurrences == OccurrencesFrom(fullTextOf(words), sentence, prevEnd)
              IN  /\ located[k].start \in occurrences
                  /\ \A p \in occurrences : located[k].start <= p
                  /\ located[k].end = located[k].start + Len(sentence)
                  /\ located[k].start < located[k].end
        /\ \A k \in 1..(Len(located) - 1) :
              /\ located[k].start < located[k + 1].start
              /\ located[k].end <= located[k + 1].start

\* The same sentence twice: the second one is located after the first.
C22_Witness ==
    /\ resolved
    /\ Len(audioSegments) = 2
    /\ audioSegments[1].text = audioSegments[2].text
    /\ located[1].start = 0
    /\ located[2].start >= located[1].end

\* The word that contributed each character of the reference text: the
\* characters of the words in order, without the newlines and without the
\* leading and trailing whitespace that the reference text does not have.
RECURSIVE ContributorsFrom(_, _)
ContributorsFrom(ws, wordIdx) ==
    IF wordIdx >= Len(ws) THEN << >>
    ELSE [i \in 1..Len(ws[wordIdx + 1].word) |->
              [char |-> ws[wordIdx + 1].word[i], word |-> wordIdx]]
         \o ContributorsFrom(ws, wordIdx + 1)

Contributors(ws) ==
    LET kept == SelectSeq(ContributorsFrom(ws, 0), LAMBDA c : c.char # "\n")
        text == [i \in 1..Len(kept) |-> kept[i].char]
        leading == Len(text) - Len(trimStart(text))
    IN  [i \in 1..Len(trim(text)) |-> kept[leading + i].word]

\* C23: each segment starts at the start of the word that contributed the
\* first character of its sentence and ends at the end of the word that
\* contributed the last one, also when the first word starts with whitespace
\* or a word contains a newline.
C23_TimesOfContributingWords ==
    resolved =>
        \A k \in 1..Len(audioSegments) :
            LET owner == Contributors(words)
            IN  /\ audioSegments[k].startTime = words[owner[located[k].start + 1] + 1].start
                /\ audioSegments[k].endTime = words[owner[located[k].end] + 1].end

\* text, startTime and endTime of the resolved segments.
SegmentSpans ==
    [k \in 1..Len(audioSegments) |->
        << audioSegments[k].text, audioSegments[k].startTime, audioSegments[k].endTime >>]

\* C24: the example words align to exactly the segments "Hi." from 0 to 1 s
\* and "Bye." from 1 to 2 s; with repeatMode off and these segments as the
\* sentences, a sample at 0.5 s makes sentence 0 current, a sample at 1.5 s
\* makes sentence 1 current, and neither issues or schedules a seek.
C24_EndToEndExample ==
    /\ resolved => SegmentSpans = << << << "H", "i", "." >>, 0, 10 >>,
                                     << << "B", "y", "e", "." >>, 10, 20 >> >>
    /\ (last.op = "timeupdate" /\ rs.repeatMode = "off" /\ last.arg \in {5, 15})
          => /\ state.currentSentenceIndex = IF last.arg = 5 THEN 0 ELSE 1
             /\ cmds = << >>
             /\ timers = {}

\* The sample at 1.5 s has been handled after the one at 0.5 s.
C24_Witness ==
    /\ resolved
    /\ Len(rs.sentences) = 2
    /\ rs.repeatMode = "off"
    /\ rs.currentSentenceIndex = 0
    /\ rs.currentTime = 5
    /\ last.op = "timeupdate"
    /\ last.arg = 15
    /\ state.currentSentenceIndex = 1

\* A position sample of the given kind handled with up-to-date handlers, in
\* sentence mode, at the end of the current sentence, the cycle (if any)
\* being its own, with no deferred seek pending.
EndSample(kind) ==
    /\ last'.op = kind
    /\ state = rs
    /\ audioRefCurrent
    /\ timers = {}
    /\ rs.repeatMode = "sentence"
    /\ rs.currentSentenceIndex >= 0
    /\ audio.currentTime >=
          SentenceAt(rs.sentences, rs.currentSentenceIndex).end - EndTolerance
    /\ rs.isRepeating => rs.repeatSentenceIndex = rs.currentSentenceIndex

\* The repeat machine has acted: a seek is scheduled, the transport is
\* paused or the cycle state has changed.
RepeatMachineActed ==
    \/ timers' # timers
    \/ cmds' # << >>
    \/ state'.isRepeating # state.isRepeating
    \/ state'.currentRepeat # state.currentRepeat

\* C26: every position sample, the tick of the 100 ms interval as well as
\* the time-changed notification, runs the repeat state machine: a tick at
\* the end of the current sentence in sentence mode makes the machine act.
C26_TickRunsRepeatMachine == [][ EndSample("interval") => RepeatMachineActed ]_vars

\* C27: a seek scheduled by the repeat machine is applied before any later
\* position sample is handled: no sample is handled while a deferred seek
\* is pending.
C27_SeekBeforeNextSample ==
    [][ timers # {} => last'.op \notin {"timeupdate", "interval"} ]_vars

\* The sentence-end sample finds replays left: the tests of lines 583 and 594.
ReplayIssued ==
    \/ ~rs.isRepeating /\ rs.currentRepeat < rs.repeatCount - 1
    \/ rs.isRepeating /\ rs.currentRepeat < rs.repeatCount

\* C28: a sentence-end sample for sentence i that issues a replay leaves
\* currentSentenceIndex at i, also when the position lies past the end of
\* sentence i.
C28_ReplayKeepsIndex ==
    [][ (EndSample("timeupdate") /\ ReplayIssued)
        => state'.currentSentenceIndex = rs.currentSentenceIndex ]_vars

\* C29: a position sample schedules a seek, pauses the transport, sets
\* isRepeating or makes currentRepeat non-zero only when repeatMode is
\* sentence, a sentence is current and the position is within 0.1 s of its
\* end or past it; in the modes off and all no sample does any of this.
C29_EndHandlingOnlyInSentenceMode ==
    [][ (last'.op \in {"timeupdate", "interval"}
         /\ \/ timers' # timers
            \/ cmds' # << >>
            \/ state'.isRepeating /\ ~state.isRepeating
            \/ state'.currentRepeat # state.currentRepeat /\ state'.currentRepeat # 0)
        => /\ rs.repeatMode = "sentence"
           /\ rs.currentSentenceIndex >= 0
           /\ audio.currentTime >=
                 SentenceAt(rs.sentences, rs.currentSentenceIndex).end - EndTolerance ]_vars

\* A time-changed sample at the end of the current sentence was handled in
\* the mode all and left the transport, the timers and the cycle alone.
C29_Witness ==
    /\ last.op = "timeupdate"
    /\ rs.repeatMode = "all"
    /\ state = rs
    /\ rs.currentSentenceIndex = 0
    /\ last.arg = SentenceAt(rs.sentences, 0).end
    /\ timers = {}
    /\ cmds = << >>
    /\ ~audio.paused
    /\ ~state.isRepeating
    /\ state.currentRepeat = 0

\* The starts of sentence j and of the sentence after it.
StartsFrom(sentences, j) ==
    { sentences[i + 1].start : i \in {j, j + 1} \cap (0..(Len(sentences) - 1)) }

\* C30: in sentence mode, the first seek applied after a jump to sentence j,
\* with no user command in between, goes to the start of sentence j (replay)
\* or of sentence j + 1 (advance), never to the start of an earlier sentence.
C30_NextSeekAfterJump ==
    [][ (jumped.phase = "jumped" /\ last'.op = "timer" /\ cmds' # << >>)
        => last'.arg \in StartsFrom(rs.sentences, jumped.index) ]_vars

\* C25: playSegment(i), started with playCount 0 and left alone, plays
\* segment i twice and then goes on to segment i + 1 or stops: no segment is
\* started a third time in a row.
C25_SegmentPlayedTwice == studio.streak.count <= 2

\* C31: a replay seek is applied only inside the cycle that scheduled it.
\* Only a replay targets the start of the first sentence (an advance goes to
\* the start of a later one), so whenever a deferred seek to that start is
\* applied, isRepeating is still true and repeatSentenceIndex is 0.
C31_ReplaySeekInsideCycle ==
    [][ (last'.op = "timer" /\ cmds' # << >>
            /\ last'.arg = SentenceAt(rs.sentences, 0).start)
        => (state.isRepeating /\ state.repeatSentenceIndex = 0) ]_vars

\* C32: currentRepeat is advanced at most once per play-through: no sample
\* increments it while a deferred seek scheduled by an earlier sample is
\* still waiting to be applied.
C32_OneIncrementPerPlay ==
    [][ state'.currentRepeat > state.currentRepeat => timers = {} ]_vars

\* C33: at most one position-sampling interval exists, and once every
\* notification is handled and rendered none exists while the transport is
\* paused or absent.
C33_OneIntervalWhilePlaying ==
    /\ intervals <= 1
    /\ (events = << >> /\ state = rs /\ (audio.paused \/ ~audioRefCurrent))
           => intervals = 0

\* C34: isRepeating is true exactly when repeatSentenceIndex is not -1, and
\* during a cycle repeatSentenceIndex is an index of the sentence list: the
\* index that was current for the handler that began the cycle, unchanged
\* for as long as the cycle lasts.
C34_CycleIndexPinned ==
    /\ state.isRepeating <=> state.repeatSentenceIndex # -1
    /\ state.isRepeating
          => state.repeatSentenceIndex \in 0..(Len(state.sentences) - 1)
    /\ (state.isRepeating /\ ~rs.isRepeating)
          => state.repeatSentenceIndex = rs.currentSentenceIndex
    /\ (state.isRepeating /\ rs.isRepeating)
          => state.repeatSentenceIndex = rs.repeatSentenceIndex

\* A sample has begun a cycle of the second sentence that is not rendered yet.
C34_Witness ==
    /\ last.op = "timeupdate"
    /\ state.isRepeating
    /\ ~rs.isRepeating
    /\ state.repeatSentenceIndex = 1
    /\ rs.currentSentenceIndex = 1

\* C35: currentSentenceIndex is -1 or an index of the sentence list.
C35_IndexInRange ==
    state.currentSentenceIndex \in -1..(Len(state.sentences) - 1)

\* C36: after stopPlayback, previousSegment or nextSegment, and until the
\* user presses play, the audio stays paused, isPlaying stays false and
\* currentSegment stays the segment the control selected.
C36_StoppedStaysStopped ==
    last.op \in {"stopPlayback", "previousSegment", "nextSegment"}
        => (studio.paused /\ ~studio.isPlaying /\ studio.currentSegment = last.arg)

\* The joined words have no newline, no run of two or more whitespace
\* characters and no whitespace at either end.
WellFormed(text) ==
    /\ \A i \in 1..Len(text) : text[i] # "\n"
    /\ \A i \in 1..(Len(text) - 1) : ~(text[i] \in Whitespace /\ text[i + 1] \in Whitespace)
    /\ text # << >> => (text[1] \notin Whitespace /\ text[Len(text)] \notin Whitespace)

====
